---- MODULE Spec2Model ----
(***************************************************************************)
(* Model of examples/skills/file-search/scripts/search_files.py:           *)
(* search_files (the directory walk, the filter chain, the result cap),    *)
(* matches_pattern and search_in_file.                                     *)
(*                                                                         *)
(* Text (paths, file names, patterns, file contents) is a sequence of      *)
(* one-character strings.  An optional argument is a sequence of length 0  *)
(* (None) or 1 (a value).                                                  *)
(***************************************************************************)
EXTENDS Integers, Sequences, FiniteSets, TLC

VARIABLES
    criteria,    \* the arguments of search_files
    scanRev,     \* the file system lists directory entries in reverse order
    pc,          \* "start", "walk" (between two directories), "files", "done"
    stack,       \* os.walk: directories still to be listed
    root,        \* os.walk: the directory being processed
    dirs,        \* os.walk: its subdirectories still to be pushed
    files,       \* the file names of root the inner loop has not reached
    results,     \* the accumulated result list
    result,      \* the value search_files returned
    visited,     \* history: directories listed, in order
    statted,     \* history: file paths os.stat was called on, in order
    failed,      \* history: file paths whose os.stat raised
    opened,      \* history: file paths search_in_file tried to open
    readFailed,  \* history: file paths whose open/read raised
    m_name,      \* matches_pattern: filename
    m_pat,       \* matches_pattern: pattern
    m_cs,        \* matches_pattern: case_sensitive
    m_out        \* matches_pattern: <<>> before the call, <<result>> after

vars == <<criteria, scanRev, pc, stack, root, dirs, files, results, result,
          visited, statted, failed, opened, readFailed,
          m_name, m_pat, m_cs, m_out>>

walkVars == <<criteria, scanRev, pc, stack, root, dirs, files, results, result,
              visited, statted, failed, opened, readFailed>>

matchVars == <<m_name, m_pat, m_cs, m_out>>

----------------------------------------------------------------------------
(* Bounds *)

MaxResults == 3      \* max_results ranges over 0..MaxResults and the default
MaxDepth == 2        \* max_depth ranges over None and 0..MaxDepth
MaxPatLen == 3       \* patterns given to matches_pattern
MaxNameLen == 2      \* file names given to matches_pattern

(* Program constants *)

DefaultMaxResults == 100

----------------------------------------------------------------------------
(* Optional values and text *)

None == <<>>

Some(x) == <<x>>

IsNone(o) == Len(o) = 0

\* Python truthiness of an optional string or list: neither None nor empty.
Truthy(o) == Len(o) = 1 /\ Len(o[1]) > 0

SEP == "/"

\* An undecodable byte of a file's contents.
BAD == "\\xff"

LowerChar(ch) ==
    CASE ch = "A" -> "a"
      [] ch = "B" -> "b"
      [] ch = "H" -> "h"
      [] ch = "P" -> "p"
      [] ch = "T" -> "t"
      [] OTHER -> ch

\* str.lower()
Lower(s) == [i \in 1..Len(s) |-> LowerChar(s[i])]

\* str.count(ch)
Count(s, ch) == Cardinality({i \in 1..Len(s) : s[i] = ch})

\* s[n:]
Drop(s, n) == SubSeq(s, n + 1, Len(s))

\* needle in hay
Contains(hay, needle) ==
    \E i \in 0..(Len(hay) - Len(needle)) :
        SubSeq(hay, i + 1, i + Len(needle)) = needle

Reverse(s) == [i \in 1..Len(s) |-> s[Len(s) + 1 - i]]

\* The elements of a sequence.
Range(s) == {s[i] : i \in 1..Len(s)}

\* All sequences over S of length lo..hi.
SeqsOf(S, lo, hi) == UNION {[1..n -> S] : n \in lo..hi}

----------------------------------------------------------------------------
(* The file system the search runs against *)

HomeDir == <<"/", "r">>

\* Directory path (no trailing separator) -> level below the search root,
\* subdirectory names and file names in listing order.
Tree ==
    (<<"/", "r">> :>
        [level |-> 0, dirs |-> << <<"a">>, <<"e">> >>,
         files |-> << <<"a", ".", "t">>, <<"B", ".", "T">>, <<"c", ".", "p">> >>])
    @@ (<<"/", "r", "/", "a">> :>
        [level |-> 1, dirs |-> << <<"b">> >>,
         files |-> << <<"d", ".", "t">> >>])
    @@ (<<"/", "r", "/", "a", "/", "b">> :>
        [level |-> 2, dirs |-> << <<"c">> >>,
         files |-> << <<"f", ".", "t">> >>])
    @@ (<<"/", "r", "/", "a", "/", "b", "/", "c">> :>
        [level |-> 3, dirs |-> << >>,
         files |-> << <<"k", ".", "t">> >>])
    @@ (<<"/", "r", "/", "e">> :>
        [level |-> 1, dirs |-> << >>,
         files |-> << <<"m", ".", "t">>, <<".", "t">> >>])

\* File path -> size, modification time, bytes, and whether os.stat / open
\* can raise OSError for it (permission denied, deleted during the walk).
FileInfo ==
    (<<"/", "r", "/", "a", ".", "t">> :>
        [size |-> 1, mtime |-> 9, data |-> <<"h", "i">>,
         statFlaky |-> FALSE, readFlaky |-> FALSE])
    @@ (<<"/", "r", "/", "B", ".", "T">> :>
        [size |-> 3, mtime |-> 9, data |-> <<BAD, "h">>,
         statFlaky |-> FALSE, readFlaky |-> FALSE])
    @@ (<<"/", "r", "/", "c", ".", "p">> :>
        [size |-> 2, mtime |-> 2, data |-> <<"H">>,
         statFlaky |-> FALSE, readFlaky |-> FALSE])
    @@ (<<"/", "r", "/", "a", "/", "d", ".", "t">> :>
        [size |-> 2, mtime |-> 9, data |-> <<"x">>,
         statFlaky |-> FALSE, readFlaky |-> FALSE])
    @@ (<<"/", "r", "/", "a", "/", "b", "/", "f", ".", "t">> :>
        [size |-> 2, mtime |-> 9, data |-> <<"h">>,
         statFlaky |-> TRUE, readFlaky |-> FALSE])
    @@ (<<"/", "r", "/", "a", "/", "b", "/", "c", "/", "k", ".", "t">> :>
        [size |-> 1, mtime |-> 9, data |-> <<"h">>,
         statFlaky |-> FALSE, readFlaky |-> FALSE])
    @@ (<<"/", "r", "/", "e", "/", "m", ".", "t">> :>
        [size |-> 2, mtime |-> 9, data |-> <<"h">>,
         statFlaky |-> FALSE, readFlaky |-> TRUE])
    @@ (<<"/", "r", "/", "e", "/", ".", "t">> :>
        [size |-> 2, mtime |-> 9, data |-> <<"t", "h">>,
         statFlaky |-> FALSE, readFlaky |-> FALSE])

\* datetime.now() at the invocation, in days.
Now == 10

\* A path names the same directory with or without trailing separators.
RECURSIVE Canon(_)
Canon(p) ==
    IF Len(p) > 1 /\ p[Len(p)] = SEP THEN Canon(SubSeq(p, 1, Len(p) - 1)) ELSE p

\* os.path.expanduser: a leading "~" becomes the home directory.
expanduser(p) ==
    IF Len(p) > 0 /\ p[1] = "~" /\ (Len(p) = 1 \/ p[2] = SEP)
    THEN HomeDir \o Tail(p)
    ELSE p

\* Faulty variant of exists: the existence check always passes.
exists_Always(p) == TRUE

\* os.path.exists
exists(p) == Canon(p) \in DOMAIN Tree

\* os.path.join(a, b) for a relative b
join(a, b) == IF Len(a) > 0 /\ a[Len(a)] = SEP THEN a \o b ELSE a \o <<SEP>> \o b

\* os.scandir order of a directory's entries
Listing(s) == IF scanRev THEN Reverse(s) ELSE s

----------------------------------------------------------------------------
(* fnmatch.fnmatch, as matches_pattern uses it (POSIX: normcase is the     *)
(* identity).  "*" is any run of characters, "?" any one character,        *)
(* "[seq]" any one character of seq; a "[" that no "]" closes is literal.  *)
(* The alphabets used here have no "!" and no "-", so negated classes and  *)
(* ranges do not occur.                                                    *)

\* Of a pattern that starts with "[": the index of the "]" that closes the
\* class (a "]" right after the "[" belongs to the class), or 0 if none.
ClassEnd(p) ==
    LET j0 == IF Len(p) >= 2 /\ p[2] = "]" THEN 3 ELSE 2
        closing == {k \in j0..Len(p) : p[k] = "]"}
    IN  IF closing = {} THEN 0
        ELSE CHOOSE k \in closing : \A k2 \in closing : k <= k2

RECURSIVE fnmatch(_, _)
fnmatch(name, pat) ==
    IF pat = <<>> THEN name = <<>>
    ELSE IF pat[1] = "*" THEN
        \E k \in 0..Len(name) : fnmatch(Drop(name, k), Tail(pat))
    ELSE IF pat[1] = "?" THEN
        name # <<>> /\ fnmatch(Tail(name), Tail(pat))
    ELSE IF pat[1] = "[" /\ ClassEnd(pat) # 0 THEN
        /\ name # <<>>
        /\ name[1] \in Range(SubSeq(pat, 2, ClassEnd(pat) - 1))
        /\ fnmatch(Tail(name), Drop(pat, ClassEnd(pat)))
    ELSE
        name # <<>> /\ name[1] = pat[1] /\ fnmatch(Tail(name), Tail(pat))

\* Faulty variant of matches_pattern: the names are never lowered.
matches_pattern_NoFold(filename, pattern, case_sensitive) ==
    fnmatch(filename, pattern)

matches_pattern(filename, pattern, case_sensitive) ==
    IF ~case_sensitive
    THEN fnmatch(Lower(filename), Lower(pattern))
    ELSE fnmatch(filename, pattern)

----------------------------------------------------------------------------
(* os.path.splitext(filename)[1]: from the last dot on, unless only dots   *)
(* precede it (".bashrc" has no extension).                                *)

splitext_ext(filename) ==
    LET dots == {i \in 1..Len(filename) : filename[i] = "."}
        last == IF dots = {} THEN 0
                ELSE CHOOSE i \in dots : \A j \in dots : j <= i
    IN  IF last > 0 /\ \E i \in 1..(last - 1) : filename[i] # "."
        THEN Drop(filename, last - 1)
        ELSE <<>>

\* Lines 144-145: both sides are lowered, whatever case_sensitive is.
ExtensionMatches(filename, extensions, case_sensitive) ==
    LET file_ext == Lower(splitext_ext(filename))
    IN  \E i \in 1..Len(extensions) : file_ext = Lower(extensions[i])

----------------------------------------------------------------------------
(* search_in_file *)

\* open(..., encoding='utf-8', errors='ignore').read(): undecodable bytes
\* are dropped, the rest is the text.
Decode(data) == SelectSeq(data, LAMBDA b : b # BAD)

\* readok: open and read did not raise.
search_in_file(filepath, search_text, case_sensitive, readok) ==
    IF ~readok THEN FALSE
    ELSE LET content == Decode(FileInfo[filepath].data)
         IN  IF ~case_sensitive
             THEN Contains(Lower(content), Lower(search_text))
             ELSE Contains(content, search_text)

----------------------------------------------------------------------------
(* The filter chain of search_files, lines 136-160, for one file whose     *)
(* os.stat succeeded.  accept: the file is appended to the results;        *)
(* opened: search_in_file was called on it.                                *)

cutoff_time(c) ==
    IF IsNone(c.modified_days) THEN None ELSE Some(Now - c.modified_days[1])

Skip == [accept |-> FALSE, opened |-> FALSE]

\* Faulty variant of Filters: the max_size test is missing.
Filters_NoMaxSize(filename, filepath, c, readok) ==
    LET file_size == FileInfo[filepath].size
        file_mtime == FileInfo[filepath].mtime
    IN  IF Truthy(c.name_pattern)
           /\ ~matches_pattern(filename, c.name_pattern[1], c.case_sensitive)
        THEN Skip
        ELSE IF Truthy(c.extensions)
           /\ ~ExtensionMatches(filename, c.extensions[1], c.case_sensitive)
        THEN Skip
        ELSE IF ~IsNone(c.min_size) /\ file_size < c.min_size[1]
        THEN Skip
        ELSE IF ~IsNone(cutoff_time(c)) /\ file_mtime < cutoff_time(c)[1]
        THEN Skip
        ELSE IF Truthy(c.content)
        THEN [accept |-> search_in_file(filepath, c.content[1], c.case_sensitive, readok),
              opened |-> TRUE]
        ELSE [accept |-> TRUE, opened |-> FALSE]

\* Faulty variant of Filters: the content test runs first.
Filters_ContentFirst(filename, filepath, c, readok) ==
    LET file_size == FileInfo[filepath].size
        file_mtime == FileInfo[filepath].mtime
        found == search_in_file(filepath, c.content[1], c.case_sensitive, readok)
    IN  IF Truthy(c.content) /\ ~found
        THEN [accept |-> FALSE, opened |-> TRUE]
        ELSE IF Truthy(c.name_pattern)
           /\ ~matches_pattern(filename, c.name_pattern[1], c.case_sensitive)
        THEN [accept |-> FALSE, opened |-> Truthy(c.content)]
        ELSE IF Truthy(c.extensions)
           /\ ~ExtensionMatches(filename, c.extensions[1], c.case_sensitive)
        THEN [accept |-> FALSE, opened |-> Truthy(c.content)]
        ELSE IF ~IsNone(c.min_size) /\ file_size < c.min_size[1]
        THEN [accept |-> FALSE, opened |-> Truthy(c.content)]
        ELSE IF ~IsNone(c.max_size) /\ file_size > c.max_size[1]
        THEN [accept |-> FALSE, opened |-> Truthy(c.content)]
        ELSE IF ~IsNone(cutoff_time(c)) /\ file_mtime < cutoff_time(c)[1]
        THEN [accept |-> FALSE, opened |-> Truthy(c.content)]
        ELSE [accept |-> TRUE, opened |-> Truthy(c.content)]

Filters(filename, filepath, c, readok) ==
    LET file_size == FileInfo[filepath].size
        file_mtime == FileInfo[filepath].mtime
    IN  IF Truthy(c.name_pattern)
           /\ ~matches_pattern(filename, c.name_pattern[1], c.case_sensitive)
        THEN Skip
        ELSE IF Truthy(c.extensions)
           /\ ~ExtensionMatches(filename, c.extensions[1], c.case_sensitive)
        THEN Skip
        ELSE IF ~IsNone(c.min_size) /\ file_size < c.min_size[1]
        THEN Skip
        ELSE IF ~IsNone(c.max_size) /\ file_size > c.max_size[1]
        THEN Skip
        ELSE IF ~IsNone(cutoff_time(c)) /\ file_mtime < cutoff_time(c)[1]
        THEN Skip
        ELSE IF Truthy(c.content)
        THEN [accept |-> search_in_file(filepath, c.content[1], c.case_sensitive, readok),
              opened |-> TRUE]
        ELSE [accept |-> TRUE, opened |-> FALSE]

\* The record appended at lines 163-171 (without the two display strings).
Entry(filename, filepath, dir) ==
    [path |-> filepath, name |-> filename, size |-> FileInfo[filepath].size,
     modified |-> FileInfo[filepath].mtime, directory |-> dir]

\* Faulty variant of InnerCapCheck: the comparison is off by one.
InnerCapCheck_OffByOne(res, max_results) == Len(res) > max_results

\* Line 125: the test before each file.
InnerCapCheck(res, max_results) == Len(res) >= max_results

\* Faulty variant of OuterCapCheck: the walk is never stopped.
OuterCapCheck_Never(res, max_results) == FALSE

\* Line 178: the test after each directory.
OuterCapCheck(res, max_results) == Len(res) >= max_results

\* Line 119: separators between the search path and the directory.
depth(dir, search_path) == Count(Drop(dir, Len(search_path)), SEP)

----------------------------------------------------------------------------
(* The arguments the search is run with *)

PathChoices ==
    { <<"/", "r">>, <<"/", "r", "/">>, <<"~">>, <<"/", "x">> }

NameChoices == { None, Some(<<>>), Some(<<"*", ".", "t">>) }

ExtensionChoices ==
    { None, Some(<< <<".", "t">> >>), Some(<< <<".", "T">>, <<".", "p">> >>) }

ContentChoices == { None, Some(<<"h">>) }

DepthChoices == { None } \cup { Some(d) : d \in 0..MaxDepth }

DaysChoices == { None, Some(3) }

MinSizeChoices == { None, Some(2) }

MaxSizeChoices == { None, Some(2) }

ResultChoices == (0..MaxResults) \cup { DefaultMaxResults }

Criteria ==
    [search_path : PathChoices, name_pattern : NameChoices,
     extensions : ExtensionChoices, content : ContentChoices,
     max_depth : DepthChoices, modified_days : DaysChoices,
     min_size : MinSizeChoices, max_size : MaxSizeChoices,
     max_results : ResultChoices, case_sensitive : BOOLEAN]

IdleCriteria ==
    [search_path |-> <<"/", "x">>, name_pattern |-> None, extensions |-> None,
     content |-> None, max_depth |-> None, modified_days |-> None,
     min_size |-> None, max_size |-> None, max_results |-> DefaultMaxResults,
     case_sensitive |-> FALSE]

NoResult == [kind |-> "none", entries |-> <<>>]

ErrorResult == [kind |-> "error", entries |-> <<>>]

ListResult(res) == [kind |-> "list", entries |-> res]

\* The search path after line 105.
search_path == expanduser(criteria.search_path)

----------------------------------------------------------------------------
(* search_files *)

Init ==
    /\ criteria \in Criteria
    /\ scanRev \in BOOLEAN
    /\ pc = "start"
    /\ stack = <<>>
    /\ root = <<>>
    /\ dirs = <<>>
    /\ files = <<>>
    /\ results = <<>>
    /\ result = NoResult
    /\ visited = <<>>
    /\ statted = <<>>
    /\ failed = {}
    /\ opened = {}
    /\ readFailed = {}
    /\ m_name = <<>>
    /\ m_pat = <<>>
    /\ m_cs = FALSE
    /\ m_out = <<>>

\* Lines 104-115: the existence check, then the walk begins.
Start ==
    /\ pc = "start"
    /\ IF ~exists(search_path)
       THEN /\ result' = ErrorResult
            /\ pc' = "done"
            /\ stack' = stack
       ELSE /\ result' = result
            /\ pc' = "walk"
            /\ stack' = <<search_path>>
    /\ UNCHANGED <<criteria, scanRev, root, dirs, files, results,
                   visited, statted, failed, opened, readFailed>>
    /\ UNCHANGED matchVars

\* os.walk, top-down: the subdirectories the body left in dirs come before
\* the directories already waiting.
Pending == [i \in 1..Len(dirs) |-> join(root, dirs[i])] \o stack

\* Lines 116-121: os.walk lists the next directory and yields it; the depth
\* check empties dirs.  A directory that cannot be listed yields nothing.
WalkNext ==
    /\ pc = "walk"
    /\ Pending # <<>>
    /\ LET top == Head(Pending)
       IN  /\ stack' = Tail(Pending)
           /\ IF Canon(top) \notin DOMAIN Tree
              THEN /\ dirs' = <<>>
                   /\ UNCHANGED <<root, files, visited, pc>>
              ELSE /\ root' = top
                   /\ files' = Listing(Tree[Canon(top)].files)
                   /\ dirs' = IF ~IsNone(criteria.max_depth)
                                 /\ depth(top, search_path) >= criteria.max_depth[1]
                              THEN <<>>
                              ELSE Listing(Tree[Canon(top)].dirs)
                   /\ visited' = Append(visited, top)
                   /\ pc' = "files"
    /\ UNCHANGED <<criteria, scanRev, results, result, statted, failed,
                   opened, readFailed>>
    /\ UNCHANGED matchVars

\* Line 181: the walk is exhausted.
WalkEnd ==
    /\ pc = "walk"
    /\ Pending = <<>>
    /\ result' = ListResult(results)
    /\ pc' = "done"
    /\ UNCHANGED <<criteria, scanRev, stack, root, dirs, files, results,
                   visited, statted, failed, opened, readFailed>>
    /\ UNCHANGED matchVars

\* Faulty variant of StatRaised: the OSError ends the search.
StatRaised_Propagates(filepath) ==
    /\ failed' = failed \cup {filepath}
    /\ result' = [kind |-> "error", entries |-> <<>>]
    /\ pc' = "done"
    /\ UNCHANGED <<results, opened, readFailed>>

\* Lines 173-175: os.stat raised OSError; the file is skipped.
StatRaised(filepath) ==
    /\ failed' = failed \cup {filepath}
    /\ UNCHANGED <<results, opened, readFailed, result, pc>>

\* Lines 132-171: os.stat succeeded; the filters run and a match is appended.
Examine(filename, filepath, readok) ==
    LET out == Filters(filename, filepath, criteria, readok)
    IN  /\ results' = IF out.accept
                      THEN Append(results, Entry(filename, filepath, root))
                      ELSE results
        /\ opened' = IF out.opened THEN opened \cup {filepath} ELSE opened
        /\ readFailed' = IF out.opened /\ ~readok
                         THEN readFailed \cup {filepath}
                         ELSE readFailed
        /\ UNCHANGED <<failed, result, pc>>

\* Lines 123-175: one iteration of the loop over the files of a directory.
ProcessFile ==
    /\ pc = "files"
    /\ files # <<>>
    /\ ~InnerCapCheck(results, criteria.max_results)
    /\ LET filename == Head(files)
           filepath == join(root, filename)
       IN  /\ files' = Tail(files)
           /\ statted' = Append(statted, filepath)
           /\ \E statok \in (IF FileInfo[filepath].statFlaky THEN BOOLEAN ELSE {TRUE}) :
                IF ~statok
                THEN StatRaised(filepath)
                ELSE \E readok \in (IF FileInfo[filepath].readFlaky THEN BOOLEAN ELSE {TRUE}) :
                        Examine(filename, filepath, readok)
    /\ UNCHANGED <<criteria, scanRev, stack, root, dirs, visited>>
    /\ UNCHANGED matchVars

\* The loop over the files ends: the list is exhausted or line 126 breaks.
LoopEnds ==
    /\ pc = "files"
    /\ (files = <<>> \/ InnerCapCheck(results, criteria.max_results))

\* Lines 178-181: the cap is reached; the walk stops and results is returned.
CapBreak ==
    /\ LoopEnds
    /\ OuterCapCheck(results, criteria.max_results)
    /\ result' = ListResult(results)
    /\ pc' = "done"
    /\ UNCHANGED <<criteria, scanRev, stack, root, dirs, files, results,
                   visited, statted, failed, opened, readFailed>>
    /\ UNCHANGED matchVars

\* Line 178 is false: os.walk is resumed.
NextDir ==
    /\ LoopEnds
    /\ ~OuterCapCheck(results, criteria.max_results)
    /\ pc' = "walk"
    /\ UNCHANGED <<criteria, scanRev, stack, root, dirs, files, results, result,
                   visited, statted, failed, opened, readFailed>>
    /\ UNCHANGED matchVars

Next ==
    \/ Start
    \/ WalkNext
    \/ WalkEnd
    \/ ProcessFile
    \/ CapBreak
    \/ NextDir

Spec == Init /\ [][Next]_vars

----------------------------------------------------------------------------
(* matches_pattern on its own *)

PatternChars == {"a", "A", "*", "?", "[", "]"}

NameChars == {"a", "A", "[", "]"}

InitMatch ==
    /\ m_name \in SeqsOf(NameChars, 1, MaxNameLen)
    /\ m_pat \in SeqsOf(PatternChars, 0, MaxPatLen)
    /\ m_cs \in BOOLEAN
    /\ m_out = <<>>
    /\ criteria = IdleCriteria
    /\ scanRev = FALSE
    /\ pc = "done"
    /\ stack = <<>>
    /\ root = <<>>
    /\ dirs = <<>>
    /\ files = <<>>
    /\ results = <<>>
    /\ result = NoResult
    /\ visited = <<>>
    /\ statted = <<>>
    /\ failed = {}
    /\ opened = {}
    /\ readFailed = {}

\* Lines 52-57.
CallMatch ==
    /\ m_out = <<>>
    /\ m_out' = <<matches_pattern(m_name, m_pat, m_cs)>>
    /\ UNCHANGED <<m_name, m_pat, m_cs>>
    /\ UNCHANGED walkVars

NextMatch == CallMatch

SpecMatch == InitMatch /\ [][NextMatch]_vars

----------------------------------------------------------------------------
(* Vocabulary of the properties *)

ResultPaths == {results[i].path : i \in 1..Len(results)}

StattedPaths == Range(statted)

\* The search path names a directory of the file system.
RootPresent == Canon(expanduser(criteria.search_path)) \in DOMAIN Tree

\* The last component of a path.
BaseName(p) ==
    LET seps == {i \in 1..Len(p) : p[i] = SEP}
        last == IF seps = {} THEN 0 ELSE CHOOSE i \in seps : \A j \in seps : j <= i
    IN  Drop(p, last)

\* How many levels below the search root a directory lies.
Level(dir) == Tree[Canon(dir)].level

Fold(s, case_sensitive) == IF case_sensitive THEN s ELSE Lower(s)

\* Each filter evaluated alone on a file; an unset criterion accepts.
NameAccepts(p) ==
    Truthy(criteria.name_pattern)
        => matches_pattern(BaseName(p), criteria.name_pattern[1], criteria.case_sensitive)

ExtensionAccepts(p) ==
    Truthy(criteria.extensions)
        => ExtensionMatches(BaseName(p), criteria.extensions[1], criteria.case_sensitive)

SizeAccepts(p) ==
    /\ ~IsNone(criteria.min_size) => FileInfo[p].size >= criteria.min_size[1]
    /\ ~IsNone(criteria.max_size) => FileInfo[p].size <= criteria.max_size[1]

WindowAccepts(p) ==
    ~IsNone(criteria.modified_days)
        => FileInfo[p].mtime >= Now - criteria.modified_days[1]

ContentAccepts(p) ==
    Truthy(criteria.content)
        => search_in_file(p, criteria.content[1], criteria.case_sensitive,
                          p \notin readFailed)

CheapAccept(p) ==
    NameAccepts(p) /\ ExtensionAccepts(p) /\ SizeAccepts(p) /\ WindowAccepts(p)

ConfiguredCount ==
    Cardinality({k \in {"name", "ext", "min", "max", "days", "content"} :
        CASE k = "name" -> Truthy(criteria.name_pattern)
          [] k = "ext" -> Truthy(criteria.extensions)
          [] k = "min" -> ~IsNone(criteria.min_size)
          [] k = "max" -> ~IsNone(criteria.max_size)
          [] k = "days" -> ~IsNone(criteria.modified_days)
          [] k = "content" -> Truthy(criteria.content)})

----------------------------------------------------------------------------
\* C1: the result list never holds more than max_results entries, at any
\* point of the walk and when it is returned; max_results = 0 returns the
\* empty list.
C1_CapNeverExceeded ==
    /\ Len(results) <= criteria.max_results
    /\ result.kind = "list" => Len(result.entries) <= criteria.max_results

\* The cap was reached in the middle of a directory and the list returned.
C1_Witness ==
    /\ pc = "done"
    /\ result.kind = "list"
    /\ criteria.max_results > 0
    /\ Len(result.entries) = criteria.max_results
    /\ files # <<>>

\* C2: with a root path that does not exist the search returns the error
\* value, whatever the other criteria: nothing is listed, nothing is
\* examined, and the result is never a list.
C2_MissingRootIsError ==
    ~RootPresent =>
        /\ visited = <<>>
        /\ statted = <<>>
        /\ results = <<>>
        /\ result.kind # "list"
        /\ pc = "done" => result = ErrorResult

C2_Witness ==
    /\ pc = "done"
    /\ ~RootPresent
    /\ result = ErrorResult
    /\ Truthy(criteria.name_pattern)
    /\ ~IsNone(criteria.max_depth)
    /\ criteria.max_results = 0

\* C3: the filters combine by conjunction: a file the walk examined is in
\* the results exactly when every configured filter, evaluated alone on it,
\* accepts it; an unset criterion excludes nothing.
C3_FiltersConjoin ==
    /\ ResultPaths \subseteq StattedPaths
    /\ \A p \in StattedPaths \ failed :
          p \in ResultPaths <=>
              /\ NameAccepts(p)
              /\ ExtensionAccepts(p)
              /\ SizeAccepts(p)
              /\ WindowAccepts(p)
              /\ ContentAccepts(p)

\* Several filters are set, a file was returned, and a file that passes the
\* name filter was kept out by another filter.
C3_Witness ==
    /\ pc = "done"
    /\ ConfiguredCount >= 3
    /\ Truthy(criteria.name_pattern)
    /\ ResultPaths # {}
    /\ \E p \in StattedPaths \ (failed \cup ResultPaths) :
          NameAccepts(p) /\ ExtensionAccepts(p) /\ ~SizeAccepts(p)

\* C4: with max depth D no returned entry lies in a directory more than D
\* levels below the root, for every spelling of the root path.
C4_DepthBound ==
    ~IsNone(criteria.max_depth) =>
        \A i \in 1..Len(results) :
            Level(results[i].directory) <= criteria.max_depth[1]

\* C5: the extension filter accepts a file exactly when its extension equals
\* a member of the extension set, case-folded unless case sensitivity is
\* requested and with exact case when it is.
C5_ExtensionRespectsCase ==
    Truthy(criteria.extensions) =>
        \A i \in 1..Len(results) :
            \E k \in 1..Len(criteria.extensions[1]) :
                Fold(splitext_ext(results[i].name), criteria.case_sensitive)
                    = Fold(criteria.extensions[1][k], criteria.case_sensitive)

\* C6: with a content substring set, a file holding undecodable bytes is
\* never returned, and a returned file's text contains the substring.
C6_UndecodableNeverReturned ==
    Truthy(criteria.content) =>
        \A i \in 1..Len(results) :
            LET data == FileInfo[results[i].path].data
            IN  /\ BAD \notin Range(data)
                /\ Contains(Fold(data, criteria.case_sensitive),
                            Fold(criteria.content[1], criteria.case_sensitive))

\* C7 as stated: once the result list holds max_results entries, no further
\* file is stat-ed or read and no further directory is listed.
C7_NothingAfterCap ==
    [][Len(results) >= criteria.max_results
        => statted' = statted /\ opened' = opened /\ visited' = visited]_vars

\* C7, amended: once the result list holds max_results entries, no further
\* file is stat-ed or read, and no directory is listed except the root
\* itself when max_results is 0; the list returned is the accumulated list.
C7_EarlyTermination ==
    [][/\ Len(results) >= criteria.max_results
          => /\ statted' = statted
             /\ opened' = opened
             /\ \/ visited' = visited
                \/ criteria.max_results = 0 /\ visited = <<>>
                   /\ visited' = <<search_path>>
       /\ result'.kind = "list" => result'.entries = results]_vars

\* The cap was reached with files of the directory and whole directories
\* still waiting.
C7_Witness ==
    /\ pc = "done"
    /\ result.kind = "list"
    /\ criteria.max_results >= 1
    /\ Len(results) = criteria.max_results
    /\ files # <<>>
    /\ Pending # <<>>

\* C8: an access failure on one file (stat, or open/read in the content
\* filter) excludes only that file: the search does not return the error
\* value, the failed file is not returned, every other examined file that
\* passes all filters is returned, and unless the cap is reached every file
\* within the depth bound is examined.
C8_FailureSkipsOneEntry ==
    RootPresent =>
        /\ result.kind # "error"
        /\ (failed \cup readFailed) \cap ResultPaths = {}
        /\ \A p \in StattedPaths \ (failed \cup readFailed) :
              CheapAccept(p) /\ ContentAccepts(p) => p \in ResultPaths
        /\ pc = "done" /\ Len(results) < criteria.max_results =>
              /\ result.kind = "list"
              /\ \A d \in DOMAIN Tree :
                    (IsNone(criteria.max_depth) \/ Tree[d].level <= criteria.max_depth[1])
                        => \A k \in 1..Len(Tree[d].files) :
                               join(d, Tree[d].files[k]) \in StattedPaths

\* A stat failure and a read failure happened, and a file examined after
\* both was returned.
C8_Witness ==
    /\ pc = "done"
    /\ result.kind = "list"
    /\ failed # {}
    /\ readFailed # {}
    /\ \E i, j \in 1..Len(statted) :
          /\ i < j
          /\ statted[i] \in failed \cup readFailed
          /\ statted[j] \in ResultPaths
    /\ \A p \in failed \cup readFailed :
          \E i, j \in 1..Len(statted) :
              i < j /\ statted[i] = p /\ statted[j] \in ResultPaths

----------------------------------------------------------------------------
(* Glob matching with "*" and "?" only, by the set of name positions that  *)
(* the pattern read so far can have reached.                               *)

GlobStep(name, ch, S) ==
    IF ch = "*" THEN {k \in 0..Len(name) : \E s \in S : s <= k}
    ELSE IF ch = "?" THEN {s + 1 : s \in {t \in S : t < Len(name)}}
    ELSE {s + 1 : s \in {t \in S : t < Len(name) /\ name[t + 1] = ch}}

RECURSIVE GlobStates(_, _, _)
GlobStates(name, pat, S) ==
    IF pat = <<>> THEN S ELSE GlobStates(name, Tail(pat), GlobStep(name, pat[1], S))

GlobAccepts(name, pat) == Len(name) \in GlobStates(name, pat, {0})

C10_ContentReadLast ==
    \A p \in opened :
        /\ Truthy(criteria.content)
        /\ p \in StattedPaths \ failed
        /\ CheapAccept(p)

\* With a content substring set, one file was opened and another was
\* rejected by a cheaper filter without being opened.
C10_Witness ==
    /\ Truthy(criteria.content)
    /\ opened # {}
    /\ \E p \in StattedPaths \ (failed \cup opened) : ~CheapAccept(p)

====
